---- MODULE Spec2Model ----
(***************************************************************************)
(* OrderByExecutor (src/ee/executors/orderbyexecutor.cpp): the ORDER BY    *)
(* executor with an optional inlined LIMIT/OFFSET node.                    *)
(*                                                                         *)
(* One execution of p_execute is a run of the state machine Spec: resolve  *)
(* the window, materialise the input table into the vector xs, order xs    *)
(* with std::sort or std::partial_sort under TupleComparer, walk xs        *)
(* skipping `offset` tuples and inserting up to `limit` tuples into the    *)
(* output table, release the input table, return true.  An exception       *)
(* (thrown by the comparer or by the progress monitor) unwinds p_execute   *)
(* from the statement that raised it.                                      *)
(*                                                                         *)
(* SpecCmp applies TupleComparer::operator() to pairs of tuples.           *)
(***************************************************************************)
EXTENDS Integers, Sequences, FiniteSets, TLC

\* ------------------------------------------------------------------------
\* Bounds of the model
\* ------------------------------------------------------------------------
\* largest number of tuples in the input table
MaxN == 3
\* largest limit the inlined limit node resolves to
MaxLimit == 2
\* largest offset the inlined limit node resolves to
MaxOffset == 2

\* ------------------------------------------------------------------------
\* Data
\* ------------------------------------------------------------------------
\* The values a sort key evaluates to.  The comparer uses them only through
\* NValue::compare, so two values give every outcome (<, =, >) per key.
KeyValues == {1, 2}

\* A TableTuple of the input schema: two columns; sort key i is column i.
Tuples == KeyValues \X KeyValues

SORT_DIRECTION_TYPE_INVALID == "INVALID"
SORT_DIRECTION_TYPE_ASC == "ASC"
SORT_DIRECTION_TYPE_DESC == "DESC"

SortDirectionType ==
    {SORT_DIRECTION_TYPE_INVALID, SORT_DIRECTION_TYPE_ASC, SORT_DIRECTION_TYPE_DESC}

\* node->getSortDirections() (with getSortExpressions() of the same length,
\* asserted by the TupleComparer constructor): one or two sort keys.
SortSpecs ==
    {<<d>> : d \in SortDirectionType}
        \cup {<<d, e>> : d \in SortDirectionType, e \in SortDirectionType}

\* The input tables: every sequence of at most MaxN tuples.
InputTables == UNION {[1..n -> Tuples] : n \in 0..MaxN}

\* NValue::compare of two key values: negative, zero or positive.
compare(x, y) == IF x < y THEN -1 ELSE IF x > y THEN 1 ELSE 0

\* k->eval(&t, NULL) for the i-th sort expression k.
eval(i, t) == t[i]

\* ------------------------------------------------------------------------
\* TupleComparer::operator()
\* ------------------------------------------------------------------------
RECURSIVE CompareFrom(_, _, _, _)
\* The loop of operator() from entry i on: "true", "false", or "throw" for
\* the SerializableEEException of an invalid direction.
CompareFrom(ta, tb, m_dirs, i) ==
    IF i > Len(m_dirs)
    THEN "false"
    ELSE LET dir == m_dirs[i]
             cmp == compare(eval(i, ta), eval(i, tb))
         IN  IF dir = SORT_DIRECTION_TYPE_ASC
             THEN IF cmp < 0 THEN "true"
                  ELSE IF cmp > 0 THEN "false"
                  ELSE CompareFrom(ta, tb, m_dirs, i + 1)
             ELSE IF dir = SORT_DIRECTION_TYPE_DESC
             THEN IF cmp < 0 THEN "false"
                  ELSE IF cmp > 0 THEN "true"
                  ELSE CompareFrom(ta, tb, m_dirs, i + 1)
             ELSE "throw"

\* faulty variant: a descending key compared as an ascending one
TupleComparerDescAsAsc(ta, tb, m_dirs) ==
    CompareFrom(ta, tb,
                [i \in 1..Len(m_dirs) |->
                    IF m_dirs[i] = SORT_DIRECTION_TYPE_DESC
                    THEN SORT_DIRECTION_TYPE_ASC ELSE m_dirs[i]], 1)

\* faulty variant: a tie on every key answers "ta precedes tb"
TupleComparerTieIsLess(ta, tb, m_dirs) ==
    IF CompareFrom(ta, tb, m_dirs, 1) = "false" /\ CompareFrom(tb, ta, m_dirs, 1) = "false"
    THEN "true"
    ELSE CompareFrom(ta, tb, m_dirs, 1)

\* faulty variant: an invalid direction is taken for an ascending one, no exception
TupleComparerInvalidAsAsc(ta, tb, m_dirs) ==
    CompareFrom(ta, tb,
                [i \in 1..Len(m_dirs) |->
                    IF m_dirs[i] = SORT_DIRECTION_TYPE_INVALID
                    THEN SORT_DIRECTION_TYPE_ASC ELSE m_dirs[i]], 1)

TupleComparer(ta, tb, m_dirs) == CompareFrom(ta, tb, m_dirs, 1)

\* ------------------------------------------------------------------------
\* std::sort and std::partial_sort under TupleComparer
\* ------------------------------------------------------------------------
\* The permutations of the positions 1..n, for every size of vector.
IndexPermutations ==
    [n \in 0..MaxN |->
        {f \in [1..n -> 1..n] : Cardinality({f[i] : i \in 1..n}) = n}]

\* The rearrangements of the vector s.
Rearrangements(s) ==
    {[i \in 1..Len(s) |-> s[f[i]]] : f \in IndexPermutations[Len(s)]}

\* The first `middle` positions of p are in order and no later element
\* precedes them, each fact established by a comparison that returned.
OrderedPrefix(p, middle, m_dirs) ==
    \A i \in 1..middle : \A j \in (i + 1)..Len(p) :
        TupleComparer(p[j], p[i], m_dirs) = "false"

\* partial_sort(xs.begin(), xs.begin() + middle, xs.end(), comparer) for
\* 0 <= middle <= size: the smallest `middle` elements in order, the rest in
\* an unspecified order.  Empty when no comparison sequence can complete.
PartialSortResults(s, middle, m_dirs) ==
    {p \in Rearrangements(s) : OrderedPrefix(p, middle, m_dirs)}

\* faulty variant: the last element of the vector is overwritten by the first
SortResultsDuplicating(s, m_dirs) ==
    {[i \in 1..Len(p) |-> IF i = Len(p) THEN p[1] ELSE p[i]] :
        p \in PartialSortResults(s, Len(s), m_dirs)}

\* sort(xs.begin(), xs.end(), comparer): any ordered rearrangement (the
\* sort is not stable).  Empty when two elements tie up to an invalid
\* direction: every sorting algorithm has to compare two such elements.
SortResults(s, m_dirs) == PartialSortResults(s, Len(s), m_dirs)

\* Some comparison of two elements of s (an element with itself included,
\* as heap selection with an empty heap compares *first with *first) throws.
SomeComparisonThrows(s, m_dirs) ==
    \E i \in 1..Len(s) : \E j \in 1..Len(s) :
        TupleComparer(s[i], s[j], m_dirs) = "throw"

\* ------------------------------------------------------------------------
\* State
\* ------------------------------------------------------------------------
VARIABLES
    input_table,    \* the tuples of node->getInputTable(), in iterator order
    dirs,           \* node->getSortDirections()
    limit_node,     \* TRUE when p_init found an inlined limit node
    limit,          \* int limit of p_execute
    offset,         \* int offset of p_execute
    iterator,       \* number of input tuples iterator.next has returned
    xs,             \* vector<TableTuple> xs
    it,             \* it - xs.begin() in the emission loop
    tuple_ctr,      \* int tuple_ctr
    tuple_skipped,  \* int tuple_skipped
    output_table,   \* the tuples this execution inserted, in insertion order
    pmp,            \* number of calls of pmp.countdownProgress()
    released,       \* number of calls of cleanupInputTempTable(input_table)
    pc,             \* position in p_execute, or in the comparer harness
    failure,        \* how the execution was abandoned, "none" while it runs
    cmp_args,       \* comparer harness: the pair of tuples compared
    cmp_out         \* comparer harness: results for (a,b), (b,a), (a,a)

vars ==
    <<input_table, dirs, limit_node, limit, offset, iterator, xs, it, tuple_ctr,
      tuple_skipped, output_table, pmp, released, pc, failure, cmp_args, cmp_out>>

\* what an execution of p_execute never touches
plan == <<input_table, dirs, limit_node, cmp_args, cmp_out>>

\* The values LimitPlanNode::getLimitAndOffsetByReference leaves in limit and
\* offset: a non-negative number, or the caller's -1 when the clause has none.
ResolvedLimits == (-1)..MaxLimit
ResolvedOffsets == (-1)..MaxOffset

\* ProgressMonitorProxy::countdownProgress either returns or raises the
\* engine's cancellation, which unwinds p_execute.
CountdownOutcomes == {"continue", "cancel"}

Init ==
    /\ input_table \in InputTables
    /\ dirs \in SortSpecs
    /\ limit_node \in BOOLEAN
    /\ limit = -1
    /\ offset = -1
    /\ iterator = 0
    /\ xs = <<>>
    /\ it = 0
    /\ tuple_ctr = 0
    /\ tuple_skipped = 0
    /\ output_table = <<>>
    /\ pmp = 0
    /\ released = 0
    /\ pc = "resolve"
    /\ failure = "none"
    /\ cmp_args = <<>>
    /\ cmp_out = <<>>

\* The execution is abandoned by an exception or a crash: nothing after the
\* raising statement runs.
Abandon(how) ==
    /\ pc' = "failed"
    /\ failure' = how

\* lines 139-144
ResolveLimit ==
    /\ pc = "resolve"
    /\ IF limit_node
       THEN /\ limit' \in ResolvedLimits
            /\ offset' \in ResolvedOffsets
       ELSE UNCHANGED <<limit, offset>>
    /\ pc' = "materialize"
    /\ UNCHANGED <<iterator, xs, it, tuple_ctr, tuple_skipped, output_table, pmp,
                   released, failure, plan>>

\* faulty variant: the tuple is also inserted into the output table as it is read
MaterializeTupleStreaming ==
    /\ pc = "materialize"
    /\ iterator < Len(input_table)
    /\ iterator' = iterator + 1
    /\ pmp' = pmp + 1
    /\ xs' = Append(xs, input_table[iterator + 1])
    /\ output_table' = Append(output_table, input_table[iterator + 1])
    /\ UNCHANGED <<limit, offset, it, tuple_ctr, tuple_skipped,
                   released, pc, failure, plan>>

\* lines 152-157, one iteration in which countdownProgress returns
MaterializeTuple ==
    /\ pc = "materialize"
    /\ iterator < Len(input_table)
    /\ iterator' = iterator + 1
    /\ pmp' = pmp + 1
    /\ xs' = Append(xs, input_table[iterator + 1])
    /\ UNCHANGED <<limit, offset, it, tuple_ctr, tuple_skipped, output_table,
                   released, pc, failure, plan>>

\* lines 152-154, the iteration in which countdownProgress raises
MaterializeCancelled ==
    /\ pc = "materialize"
    /\ iterator < Len(input_table)
    /\ "cancel" \in CountdownOutcomes
    /\ iterator' = iterator + 1
    /\ pmp' = pmp + 1
    /\ Abandon("cancel_materialize")
    /\ UNCHANGED <<limit, offset, xs, it, tuple_ctr, tuple_skipped, output_table,
                   released, plan>>

\* line 162: limit >= 0 && xs.begin() + limit + offset < xs.end()
PartialSortChosen == limit >= 0 /\ limit + offset < Len(xs)

\* The materialisation loop has ended: line 162 is reached.
AtOrdering == pc = "materialize" /\ iterator = Len(input_table)

\* lines 162-165, the partial sort returns
PartialSort ==
    /\ AtOrdering
    /\ PartialSortChosen
    /\ limit + offset >= 0
    /\ xs' \in PartialSortResults(xs, limit + offset, dirs)
    /\ pc' = "emit"
    /\ UNCHANGED <<limit, offset, iterator, it, tuple_ctr, tuple_skipped,
                   output_table, pmp, released, failure, plan>>

\* lines 162-165, a comparison made by the partial sort throws.  Which pairs
\* partial_sort compares beyond those its result needs is the library's
\* choice.
PartialSortThrows ==
    /\ AtOrdering
    /\ PartialSortChosen
    /\ limit + offset >= 0
    /\ SomeComparisonThrows(xs, dirs)
    /\ Abandon("sort_direction")
    /\ UNCHANGED <<limit, offset, iterator, xs, it, tuple_ctr, tuple_skipped,
                   output_table, pmp, released, plan>>

\* lines 162-165 with limit = 0 and offset = -1: the middle iterator is
\* xs.begin() - 1, outside the vector, and the behaviour is undefined.  The
\* process crashes, or the call returns: the heap selection has then taken
\* the element before the vector for one of the range, so that xs is left
\* rearranged, its first element possibly exchanged for that foreign tuple.
PartialSortOutOfRange ==
    /\ AtOrdering
    /\ PartialSortChosen
    /\ limit + offset < 0
    /\ \/ /\ Abandon("crash")
          /\ UNCHANGED xs
       \/ /\ \E p \in Rearrangements(xs) :
                \/ xs' = p
                \/ /\ Len(p) > 0
                   /\ \E g \in Tuples : xs' = [p EXCEPT ![1] = g]
          /\ pc' = "emit"
          /\ UNCHANGED failure
    /\ UNCHANGED <<limit, offset, iterator, it, tuple_ctr, tuple_skipped,
                   output_table, pmp, released, plan>>

\* lines 166-170, the sort returns
FullSort ==
    /\ AtOrdering
    /\ ~PartialSortChosen
    /\ xs' \in SortResults(xs, dirs)
    /\ pc' = "emit"
    /\ UNCHANGED <<limit, offset, iterator, it, tuple_ctr, tuple_skipped,
                   output_table, pmp, released, failure, plan>>

\* lines 166-170, a comparison the sort has to make throws
FullSortThrows ==
    /\ AtOrdering
    /\ ~PartialSortChosen
    /\ SortResults(xs, dirs) = {}
    /\ Abandon("sort_direction")
    /\ UNCHANGED <<limit, offset, iterator, xs, it, tuple_ctr, tuple_skipped,
                   output_table, pmp, released, plan>>

\* faulty variant: a skipped tuple is reported to the progress monitor too
EmitSkipReporting ==
    /\ pc = "emit"
    /\ it < Len(xs)
    /\ tuple_skipped < offset
    /\ tuple_skipped' = tuple_skipped + 1
    /\ it' = it + 1
    /\ pmp' = pmp + 1
    /\ UNCHANGED <<limit, offset, iterator, xs, tuple_ctr, output_table,
                   released, pc, failure, plan>>

\* lines 174-182, an iteration before the offset is passed
EmitSkip ==
    /\ pc = "emit"
    /\ it < Len(xs)
    /\ tuple_skipped < offset
    /\ tuple_skipped' = tuple_skipped + 1
    /\ it' = it + 1
    /\ UNCHANGED <<limit, offset, iterator, xs, tuple_ctr, output_table, pmp,
                   released, pc, failure, plan>>

\* lines 174-194, an iteration that inserts *it; countdownProgress returns.
\* ++tuple_ctr is evaluated only when limit >= 0; the break leaves the loop.
EmitTuple ==
    /\ pc = "emit"
    /\ it < Len(xs)
    /\ ~(tuple_skipped < offset)
    /\ output_table' = Append(output_table, xs[it + 1])
    /\ pmp' = pmp + 1
    /\ IF limit >= 0
       THEN /\ tuple_ctr' = tuple_ctr + 1
            /\ IF tuple_ctr + 1 >= limit
               THEN pc' = "cleanup" /\ UNCHANGED it
               ELSE it' = it + 1 /\ UNCHANGED pc
       ELSE /\ it' = it + 1
            /\ UNCHANGED <<tuple_ctr, pc>>
    /\ UNCHANGED <<limit, offset, iterator, xs, tuple_skipped, released,
                   failure, plan>>

\* faulty variant: the input table is released while the cancellation unwinds
EmitCancelledReleasing ==
    /\ pc = "emit"
    /\ it < Len(xs)
    /\ ~(tuple_skipped < offset)
    /\ output_table' = Append(output_table, xs[it + 1])
    /\ pmp' = pmp + 1
    /\ released' = released + 1
    /\ Abandon("cancel_emit")
    /\ UNCHANGED <<limit, offset, iterator, xs, it, tuple_ctr, tuple_skipped, plan>>

\* lines 186-187, the iteration in which countdownProgress raises
EmitCancelled ==
    /\ pc = "emit"
    /\ it < Len(xs)
    /\ ~(tuple_skipped < offset)
    /\ "cancel" \in CountdownOutcomes
    /\ output_table' = Append(output_table, xs[it + 1])
    /\ pmp' = pmp + 1
    /\ Abandon("cancel_emit")
    /\ UNCHANGED <<limit, offset, iterator, xs, it, tuple_ctr, tuple_skipped,
                   released, plan>>

\* line 174, it == xs.end(): the loop ends
EmitEnd ==
    /\ pc = "emit"
    /\ it = Len(xs)
    /\ pc' = "cleanup"
    /\ UNCHANGED <<limit, offset, iterator, xs, it, tuple_ctr, tuple_skipped,
                   output_table, pmp, released, failure, plan>>

\* lines 197-199: cleanupInputTempTable(input_table); return true
Cleanup ==
    /\ pc = "cleanup"
    /\ released' = released + 1
    /\ pc' = "done"
    /\ UNCHANGED <<limit, offset, iterator, xs, it, tuple_ctr, tuple_skipped,
                   output_table, pmp, failure, plan>>

Next ==
    \/ ResolveLimit
    \/ MaterializeTuple
    \/ MaterializeCancelled
    \/ PartialSort
    \/ PartialSortThrows
    \/ PartialSortOutOfRange
    \/ FullSort
    \/ FullSortThrows
    \/ EmitSkip
    \/ EmitTuple
    \/ EmitCancelled
    \/ EmitEnd
    \/ Cleanup

Spec == Init /\ [][Next]_vars

\* ------------------------------------------------------------------------
\* The comparer applied to a pair of tuples
\* ------------------------------------------------------------------------
InitCmp ==
    /\ input_table = <<>>
    /\ dirs \in SortSpecs
    /\ limit_node = FALSE
    /\ limit = -1
    /\ offset = -1
    /\ iterator = 0
    /\ xs = <<>>
    /\ it = 0
    /\ tuple_ctr = 0
    /\ tuple_skipped = 0
    /\ output_table = <<>>
    /\ pmp = 0
    /\ released = 0
    /\ pc = "compare"
    /\ failure = "none"
    /\ cmp_args \in Tuples \X Tuples
    /\ cmp_out = <<>>

\* comparer(a, b), comparer(b, a) and comparer(a, a)
Compare ==
    /\ pc = "compare"
    /\ cmp_out' = <<TupleComparer(cmp_args[1], cmp_args[2], dirs),
                    TupleComparer(cmp_args[2], cmp_args[1], dirs),
                    TupleComparer(cmp_args[1], cmp_args[1], dirs)>>
    /\ pc' = "compared"
    /\ UNCHANGED <<input_table, dirs, limit_node, limit, offset, iterator, xs, it,
                   tuple_ctr, tuple_skipped, output_table, pmp, released, failure,
                   cmp_args>>

NextCmp == Compare

SpecCmp == InitCmp /\ [][NextCmp]_vars

\* ------------------------------------------------------------------------
\* The windowing loop as a function of the ordered vector
\* ------------------------------------------------------------------------
RECURSIVE WindowFrom(_, _, _, _, _, _)
\* lines 172-194 run to the end without cancellation, from position i with
\* the counters skipped and ctr: the tuples inserted.
WindowFrom(s, i, skipped, ctr, l, o) ==
    IF i > Len(s)
    THEN <<>>
    ELSE IF skipped < o
    THEN WindowFrom(s, i + 1, skipped + 1, ctr, l, o)
    ELSE IF l >= 0 /\ ctr + 1 >= l
    THEN <<s[i]>>
    ELSE <<s[i]>> \o WindowFrom(s, i + 1, skipped, IF l >= 0 THEN ctr + 1 ELSE ctr, l, o)

WindowLoop(s, l, o) == WindowFrom(s, 1, 0, 0, l, o)

\* ------------------------------------------------------------------------
\* Vocabulary of the properties
\* ------------------------------------------------------------------------
N == Len(input_table)

Min(a, b) == IF a < b THEN a ELSE b

Max(a, b) == IF a > b THEN a ELSE b

ValidDirection(d) == d \in {SORT_DIRECTION_TYPE_ASC, SORT_DIRECTION_TYPE_DESC}

ValidSortSpec(ds) == \A i \in 1..Len(ds) : ValidDirection(ds[i])

\* a strictly precedes b in the lexicographic order of the SortSpec ds: at the
\* first entry on which they differ, a is smaller (ascending) or larger
\* (descending).
Precedes(a, b, ds) ==
    \E i \in 1..Len(ds) :
        /\ \A j \in 1..(i - 1) : a[j] = b[j]
        /\ \/ ds[i] = SORT_DIRECTION_TYPE_ASC /\ a[i] < b[i]
           \/ ds[i] = SORT_DIRECTION_TYPE_DESC /\ a[i] > b[i]

\* a comparison of a and b arrives at an entry of ds with an invalid direction
ReachesInvalid(a, b, ds) ==
    \E i \in 1..Len(ds) :
        /\ ~ValidDirection(ds[i])
        /\ \A j \in 1..(i - 1) : a[j] = b[j]

\* no element of s strictly precedes an earlier one
InOrder(s, ds) ==
    \A i \in 1..Len(s) : \A j \in (i + 1)..Len(s) : ~Precedes(s[j], s[i], ds)

\* the full sorts of s
FullySorted(s, ds) == {p \in Rearrangements(s) : InOrder(p, ds)}

\* the sort-key values of the tuples of s
KeySeq(s, ds) == [i \in 1..Len(s) |-> SubSeq(s[i], 1, Len(ds))]

Occurrences(t, s) == Cardinality({i \in 1..Len(s) : s[i] = t})

SameMultiset(s, t) == \A x \in Tuples : Occurrences(x, s) = Occurrences(x, t)

\* ------------------------------------------------------------------------
\* Properties
\* ------------------------------------------------------------------------

\* C1: a successful execution with limit L and offset O >= 0 has inserted
\* min(max(N-O,0), L) tuples when L is set and max(N-O,0) when L is absent.
C1_EmittedCount ==
    (pc = "done" /\ offset >= 0 /\ ValidSortSpec(dirs)) =>
        Len(output_table) =
            IF limit >= 0 THEN Min(Max(N - offset, 0), limit) ELSE Max(N - offset, 0)

\* C2: with L set, O >= 0 and L+O < N (the partial sort), the emitted
\* sort-key sequence is the one the same windowing loop emits from a full sort.
C2_PartialSortEquivalence ==
    (pc = "done" /\ limit >= 0 /\ offset >= 0 /\ limit + offset < N
        /\ ValidSortSpec(dirs)) =>
        \A s \in FullySorted(input_table, dirs) :
            KeySeq(output_table, dirs) = KeySeq(WindowLoop(s, limit, offset), dirs)

\* C3: under a valid SortSpec the output table is always in sorted order: no
\* inserted tuple strictly precedes one inserted before it.
C3_OutputInOrder ==
    ValidSortSpec(dirs) =>
        \A i \in 1..(Len(output_table) - 1) :
            ~Precedes(output_table[i + 1], output_table[i], dirs)

C3_Witness ==
    /\ pc = "done"
    /\ dirs = <<SORT_DIRECTION_TYPE_ASC, SORT_DIRECTION_TYPE_DESC>>
    /\ Len(output_table) >= 2
    /\ output_table[1][1] = output_table[2][1]
    /\ output_table[1][2] > output_table[2][2]
    /\ input_table # output_table

\* C4: a cancellation raised by a progress report of the materialisation,
\* after k < N tuples, abandons the execution with nothing inserted.
C4_CancelledMaterialization ==
    failure = "cancel_materialize" =>
        /\ pc = "failed"
        /\ Len(xs) < N
        /\ output_table = <<>>

C4_Witness ==
    /\ failure = "cancel_materialize"
    /\ Len(xs) >= 1

\* C5 as claimed: an execution whose SortSpec holds an invalid direction
\* never returns success.
C5_InvalidDirectionNeverSucceeds ==
    ~ValidSortSpec(dirs) => pc # "done"

\* C5 amended: the execution fails with the invalid-direction error only by a
\* comparison that reaches an invalid entry, nothing is inserted or released
\* then, and the full sort never returns when two materialised tuples tie on
\* every entry before an invalid one (so it always fails for N >= 2 with the
\* invalid direction first, and never for N <= 1).
C5_FailsWhenComparisonReachesInvalid ==
    /\ failure = "sort_direction" =>
          /\ pc = "failed"
          /\ output_table = <<>>
          /\ released = 0
          /\ \E i \in 1..Len(xs) : \E j \in 1..Len(xs) :
                /\ PartialSortChosen \/ i # j
                /\ ReachesInvalid(xs[i], xs[j], dirs)
    /\ (pc \in {"emit", "cleanup", "done"} /\ ~PartialSortChosen /\ ~ValidSortSpec(dirs)) =>
          \A i \in 1..Len(xs) : \A j \in 1..Len(xs) :
              i # j => ~ReachesInvalid(xs[i], xs[j], dirs)

C5_Witness ==
    /\ failure = "sort_direction"
    /\ ~PartialSortChosen
    /\ dirs = <<SORT_DIRECTION_TYPE_ASC, SORT_DIRECTION_TYPE_INVALID>>
    /\ N >= 2

\* C6: the input table is released at most once, only by an execution that
\* returns success and only after its last insertion; an execution that is
\* cancelled, or whose comparer throws, ends without releasing it.
C6_ReleaseOnlyOnSuccess ==
    /\ released \in {0, 1}
    /\ released = 1 <=> pc = "done"
    /\ pc = "done" => failure = "none"
    /\ failure # "none" => pc = "failed"

C6_Witness ==
    /\ failure = "cancel_emit"
    /\ Len(output_table) >= 2
    /\ released = 0

\* C7: without cancellation the progress monitor has been invoked once per
\* tuple read and once per tuple inserted, never for a skipped tuple; on
\* success that is N plus the number of emitted tuples.
C7_ProgressReports ==
    failure \notin {"cancel_materialize", "cancel_emit"} =>
        /\ pmp = iterator + Len(output_table)
        /\ pc = "done" => pmp = N + Len(output_table)

C7_Witness ==
    /\ pc = "done"
    /\ tuple_skipped >= 1
    /\ Len(output_table) >= 1
    /\ pmp = N + Len(output_table)

\* C8: with neither limit nor offset a successful execution has inserted a
\* permutation of the input, in sorted order.
C8_FullSortPermutation ==
    (pc = "done" /\ limit = -1 /\ offset = -1) =>
        /\ Len(output_table) = N
        /\ SameMultiset(output_table, input_table)
        /\ InOrder(output_table, dirs)

C8_Witness ==
    /\ pc = "done"
    /\ limit = -1
    /\ offset = -1
    /\ limit_node
    /\ Len(output_table) >= 2
    /\ output_table # input_table
    /\ output_table[1] # output_table[2]

\* C9: with a limit L >= 0 and the offset absent (-1) nothing is skipped, the
\* ordering step has ordered a prefix of min(L, N) positions, and the emitted
\* keys are the first min(L, N) of the full sort.
C9_AbsentOffsetIsZero ==
    (limit >= 0 /\ offset = -1 /\ ValidSortSpec(dirs)) =>
        /\ tuple_skipped = 0
        /\ pc \in {"emit", "cleanup", "done"} =>
              \A i \in 1..Min(limit, N) : \A j \in (i + 1)..Len(xs) :
                  ~Precedes(xs[j], xs[i], dirs)
        /\ pc = "done" =>
              \A s \in FullySorted(input_table, dirs) :
                  KeySeq(output_table, dirs) = KeySeq(SubSeq(s, 1, Min(limit, N)), dirs)

\* C10: for a valid SortSpec the comparer answers true exactly when a
\* strictly precedes b at the first entry on which they differ, false
\* otherwise; it is irreflexive and asymmetric.
C10_ComparerIsLexicographic ==
    (pc = "compared" /\ ValidSortSpec(dirs)) =>
        /\ cmp_out[1] = (IF Precedes(cmp_args[1], cmp_args[2], dirs) THEN "true" ELSE "false")
        /\ cmp_out[3] = "false"
        /\ ~(cmp_out[1] = "true" /\ cmp_out[2] = "true")

C10_Witness ==
    /\ pc = "compared"
    /\ dirs = <<SORT_DIRECTION_TYPE_ASC, SORT_DIRECTION_TYPE_DESC>>
    /\ cmp_args[1][1] = cmp_args[2][1]
    /\ cmp_args[1][2] > cmp_args[2][2]
    /\ cmp_out[1] = "true"
    /\ cmp_out[2] = "false"

====
